---- MODULE Spec2Model ----
(***************************************************************************)
(* Model of the xamboo page engine (core.Engine: Start, Run and helpers),  *)
(* the redirect engine (RedirectEngine.Run) and the hot-reload library     *)
(* engine (LibraryEngineInstance.Run).                                     *)
(*                                                                         *)
(* Texts and paths are sequences of one-character strings, so that         *)
(* strings.Split, strings.Join and strings.Replace are computed and not    *)
(* assumed.  A fixed message of the code is kept as one atom of a text.    *)
(***************************************************************************)
EXTENDS Integers, Sequences, FiniteSets, TLC

VARIABLES
    config,     \* host configuration, page/resource stores and the request
    stack,      \* call stack of Engine.Run (one frame per active call)
    response,   \* what was written to the http.ResponseWriter
    MainContext,\* Engine.MainContext
    started,    \* Engine.Start was entered
    trace       \* observations: store queries, Replace calls, substitutions

evars == <<config, stack, response, MainContext, started, trace>>

VARIABLES
    fs,           \* the source file and the compiled plugin files on disk
    LibraryCache, \* LibraryCache entry of the source path: a plugin object or none
    heap,         \* the assets.Plugin objects, by the request task that made them
    procs,        \* the request tasks inside LibraryEngineInstance.Run
    epoch         \* observations since the last change of the source file

lvars == <<fs, LibraryCache, heap, procs, epoch>>

VARIABLES
    answer        \* one dispatch on a Ready module: what the function returned,
                  \* the asked output format, and the answer of Run

jvars == <<answer>>

VARIABLES
    clock,          \* time.Now(), in minutes
    SystemStat,     \* stat.SystemStat: the totals, the window and its mutex
    RequestCounter, \* stat.RequestCounter
    stats,          \* the RequestStat objects, by address
    tasks,          \* the request tasks inside CreateRequestStat and UpdateStat
    cleaner,        \* the task of Stat.Clean
    tally           \* observations: the calls made and the lengths passed

svars == <<clock, SystemStat, RequestCounter, stats, tasks, cleaner, tally>>

xvars == <<jvars, svars>>

vars == <<evars, lvars, xvars>>

-----------------------------------------------------------------------------
(* Bounds *)

MaxSegs == 3        \* longest request path, in segments
MaxChain == 2       \* longest chain of parent templates in the texts family
MaxDepth == 4       \* deepest call stack of Engine.Run that is explored
MaxPresent == 2     \* most identities for which a page has resources
MaxRuns == 3        \* invocations of the library page, all request tasks together
MaxUpdates == 1     \* calls of UpdateStat
MaxClock == 3       \* minutes that pass
MaxTouches == 1     \* changes of the source file: it is written again or removed

-----------------------------------------------------------------------------
(* Program constants *)

StatusMovedPermanently == 301
StatusFound == 302
StatusTemporaryRedirect == 307
StatusPermanentRedirect == 308
StatusNotFound == 404
StatusInternalServerError == 500

Token == <<"[", "[", "C", "O", "N", "T", "E", "N", "T", "]", "]">>

-----------------------------------------------------------------------------
(* strings *)

HasSlash(s) == \E i \in 1..Len(s) : s[i] = "/"

FirstSlash(s) == CHOOSE i \in 1..Len(s) : s[i] = "/" /\ \A j \in 1..(i-1) : s[j] # "/"

RECURSIVE Split(_)
Split(s) ==
    IF ~HasSlash(s) THEN <<s>>
    ELSE LET i == FirstSlash(s)
         IN  <<SubSeq(s, 1, i-1)>> \o Split(SubSeq(s, i+1, Len(s)))

RECURSIVE Join(_)
Join(parts) ==
    IF parts = <<>> THEN <<>>
    ELSE IF Len(parts) = 1 THEN parts[1]
    ELSE parts[1] \o <<"/">> \o Join(Tail(parts))

HasPrefixAt(s, i, old) ==
    /\ i + Len(old) - 1 <= Len(s)
    /\ SubSeq(s, i, i + Len(old) - 1) = old

RECURSIVE Count(_, _)
Count(s, old) ==
    IF Len(s) < Len(old) THEN 0
    ELSE IF HasPrefixAt(s, 1, old)
         THEN 1 + Count(SubSeq(s, Len(old) + 1, Len(s)), old)
         ELSE Count(Tail(s), old)

\* replaces the token only where the text starts with it
Replace_M(s, old, new) ==
    IF HasPrefixAt(s, 1, old)
    THEN new \o SubSeq(s, Len(old) + 1, Len(s))
    ELSE s

RECURSIVE Replace(_, _, _)
Replace(s, old, new) ==
    IF Len(s) < Len(old) THEN s
    ELSE IF HasPrefixAt(s, 1, old)
         THEN new \o Replace(SubSeq(s, Len(old) + 1, Len(s)), old, new)
         ELSE <<s[1]>> \o Replace(Tail(s), old, new)

Contains(s, old) == old = <<>> \/ \E i \in 1..Len(s) : HasPrefixAt(s, i, old)

-----------------------------------------------------------------------------
(* Descriptors, identities, resources *)

NoPage == [exists |-> FALSE, status |-> "", type |-> "", template |-> <<>>,
           Redirect |-> <<>>, redirectcode |-> 0, AcceptPathParameters |-> FALSE]

Desc(st, ty, tpl, acc) ==
    [exists |-> TRUE, status |-> st, type |-> ty, template |-> tpl,
     Redirect |-> <<>>, redirectcode |-> 0, AcceptPathParameters |-> acc]

RedirectDesc(st, url, code) ==
    [exists |-> TRUE, status |-> st, type |-> "redirect", template |-> <<>>,
     Redirect |-> url, redirectcode |-> code, AcceptPathParameters |-> FALSE]

NoIdentity == <<"nil", "nil">>

NoCall == [on |-> FALSE, page |-> <<>>, version |-> "", language |-> ""]

PageGetData(P) ==
    IF P \in DOMAIN config.pages THEN config.pages[P] ELSE NoPage

ResourceGetData(kind, P, n) ==
    P \in DOMAIN config.present[kind] /\ n \in config.present[kind][P]

LibraryGetData(P) == P \in config.libraries

TextOf(P) == IF P \in DOMAIN config.texts THEN config.texts[P] ELSE <<>>

CallOf(P) == IF P \in DOMAIN config.calls THEN config.calls[P] ELSE NoCall

-----------------------------------------------------------------------------
(* Engine helpers *)

\* template and block pages are served to top-level requests too
isAvailable_M(innerpage, p) ==
    IF p.status = "hidden" THEN FALSE
    ELSE IF p.status = "published" THEN TRUE
    ELSE IF p.status = "template" \/ p.status = "block" THEN TRUE
    ELSE FALSE

isAvailable(innerpage, p) ==
    IF p.status = "hidden" THEN FALSE
    ELSE IF p.status = "published" THEN TRUE
    ELSE IF innerpage /\ (p.status = "template" \/ p.status = "block") THEN TRUE
    ELSE FALSE

verifyRecursion(page) == FALSE

\* goes straight to the first level
RemoveLevel_M(path) == SubSeq(path, 1, 1)

\* "remove a level from the end"
RemoveLevel(path) == SubSeq(path, 1, Len(path) - 1)

Versions(version) ==
    LET defversion == config.version
    IN  <<defversion>>
        \o (IF version # "" /\ version # defversion THEN <<version>> ELSE <<>>)
        \o <<"">>

Languages(language) ==
    LET deflanguage == config.language
    IN  <<deflanguage>>
        \o (IF language # "" /\ language # deflanguage THEN <<language>> ELSE <<>>)
        \o <<"">>

RECURSIVE InnerLoop(_, _)
InnerLoop(v, languages) ==
    IF languages = <<>> THEN <<>>
    ELSE <<<<v, Head(languages)>>>> \o InnerLoop(v, Tail(languages))

RECURSIVE OuterLoop(_, _)
OuterLoop(versions, languages) ==
    IF versions = <<>> THEN <<>>
    ELSE InnerLoop(Head(versions), languages) \o OuterLoop(Tail(versions), languages)

Identities(version, language) == OuterLoop(Versions(version), Languages(language))

\* the loop without its break: the last hit wins
RECURSIVE FirstIdentity_M(_, _, _)
FirstIdentity_M(kind, P, identities) ==
    IF identities = <<>> THEN NoIdentity
    ELSE LET rest == FirstIdentity_M(kind, P, Tail(identities))
         IN  IF rest # NoIdentity THEN rest
             ELSE IF ResourceGetData(kind, P, Head(identities)) THEN Head(identities)
             ELSE NoIdentity

\* the "for _, n := range identities" loops: the identity of the first hit
RECURSIVE FirstIdentity(_, _, _)
FirstIdentity(kind, P, identities) ==
    IF identities = <<>> THEN NoIdentity
    ELSE IF ResourceGetData(kind, P, Head(identities)) THEN Head(identities)
    ELSE FirstIdentity(kind, P, Tail(identities))

loadTemplate(P, identities) == FirstIdentity("template", P, identities)

loadLanguage(P, identities) == FirstIdentity("language", P, identities)

\* keeps the remainder of the path as one parameter
URLparams_M(page, P) == <<SubSeq(page, Len(P) + 2, Len(page))>>

\* xParams = strings.Split(page[len(P)+1:], "/")
URLparams(page, P) == Split(SubSeq(page, Len(P) + 2, Len(page)))

ErrNoPage(page) == <<"Error 404: no page found .page for ">> \o page
ErrParameters == <<"Error 404: no page found with parameters">>
ErrNoInstance == <<"Error: the page/block has no instance">>
ErrRecursive == <<"Error: the page/block is recursive">>
ErrNoCode(type) == <<"Error: the ", type, " page/block has no code">>
Unknown == <<"THIS IS SOMETHING UNKNOWN FROM A PARALLEL UNIVERSE THAT SHOULD NOT HAPPEN">>

NoResponse == [code |-> 0, location |-> <<>>, header |-> <<>>, error |-> <<>>,
               body |-> <<>>, written |-> FALSE]

\* path.Split: the directory of a path, up to and with its last slash
RECURSIVE Dir(_)
Dir(path) ==
    IF path = <<>> \/ path[Len(path)] = "/" THEN path
    ELSE Dir(SubSeq(path, 1, Len(path) - 1))

\* path.Clean of a rooted path without dots: no empty segment, no ending slash
RECURSIVE Clean(_)
Clean(path) ==
    IF Len(path) <= 1 THEN path
    ELSE IF path[Len(path)] = "/" THEN Clean(SubSeq(path, 1, Len(path) - 1))
    ELSE IF path[1] = "/" /\ path[2] = "/" THEN Clean(Tail(path))
    ELSE <<path[1]>> \o Clean(Tail(path))

\* http.Redirect: the Location header; a url without a leading slash is
\* relative to the directory of the request path, and the result is cleaned
\* with its ending slash kept
httpRedirect(oldpath, url) ==
    LET absolute == IF url = <<>> \/ url[1] # "/" THEN Dir(oldpath) \o url ELSE url
        cleaned == Clean(absolute)
    IN  IF /\ absolute # <<>> /\ absolute[Len(absolute)] = "/"
           /\ cleaned[Len(cleaned)] # "/"
        THEN cleaned \o <<"/">>
        ELSE cleaned

launchErrorResult(innerpage, message) == IF innerpage THEN message ELSE <<>>

\* answers the HTTP error for inner calls too
launchErrorResponse_M(innerpage, message) ==
    [response EXCEPT !.code = IF @ = 0 THEN StatusNotFound ELSE @,
                     !.error = message]

\* http.Error(e.writer, message, http.StatusNotFound) of a top-level call
launchErrorResponse(innerpage, message) ==
    IF innerpage THEN response
    ELSE [response EXCEPT !.code = IF @ = 0 THEN StatusNotFound ELSE @,
                          !.error = message]

launchRedirect(url) ==
    [response EXCEPT !.code = IF @ = 0 THEN StatusMovedPermanently ELSE @,
                     !.location = url,
                     !.header = httpRedirect(config.url, url)]

\* redirects for inner calls too
RedirectEngineRun_M(IsMainPage, redirecturl, redirectcode) ==
    IF redirecturl # <<>>
    THEN [redirected |-> TRUE, code |-> redirectcode, location |-> redirecturl,
          ctxCode |-> 0]
    ELSE [redirected |-> FALSE, code |-> 0, location |-> <<>>,
          ctxCode |-> StatusInternalServerError]

\* RedirectEngine.Run: the redirect a context gets from the redirect engine
RedirectEngineRun(IsMainPage, redirecturl, redirectcode) ==
    IF IsMainPage /\ redirecturl # <<>>
    THEN [redirected |-> TRUE,
          code |-> IF /\ redirectcode # StatusMovedPermanently
                      /\ redirectcode # StatusFound
                      /\ redirectcode # StatusTemporaryRedirect
                      /\ redirectcode # StatusPermanentRedirect
                   THEN StatusPermanentRedirect
                   ELSE redirectcode,
          location |-> redirecturl,
          ctxCode |-> 0]
    ELSE [redirected |-> FALSE, code |-> 0, location |-> <<>>,
          ctxCode |-> StatusInternalServerError]

NoRedirect == [redirected |-> FALSE, code |-> 0, location |-> <<>>, ctxCode |-> 0]

-----------------------------------------------------------------------------
(* Engine.Start and Engine.Run *)

NoContext ==
    [LocalPage |-> <<>>, LocalPageUsed |-> <<>>, LocalURLparams |-> <<>>,
     LocalPageparams |-> NoPage, LocalInstanceparams |-> NoIdentity,
     MainPage |-> <<>>, MainPageUsed |-> <<>>, MainURLparams |-> <<>>,
     MainPageparams |-> NoPage, MainInstanceparams |-> NoIdentity]

NewFrame(page, innerpage, version, language) ==
    [page |-> page, innerpage |-> innerpage, version |-> version,
     language |-> language, P |-> page, pc |-> "locate", pagedata |-> NoPage,
     queries |-> 0, xParams |-> <<>>, identities |-> <<>>,
     instancedata |-> NoIdentity, codedata |-> NoIdentity,
     templatedata |-> NoIdentity, languagedata |-> NoIdentity,
     xdata |-> <<>>, ctx |-> NoContext, result |-> <<>>, failed |-> FALSE]

Top == stack[Len(stack)]

SetTop(f) == [stack EXCEPT ![Len(stack)] = f]

\* "return e.launchError(innerpage, message)" of the running call
ReturnError(f, message) ==
    /\ stack' = SetTop([f EXCEPT !.pc = "ret", !.failed = TRUE,
                                 !.result = launchErrorResult(f.innerpage, message)])
    /\ response' = launchErrorResponse(f.innerpage, message)

Start ==
    /\ ~started
    /\ started' = TRUE
    /\ LET url == config.url
           page == IF url[1] = "/" THEN Tail(url) ELSE url
       IN  IF Len(page) > 0 /\ page[Len(page)] = "/"
           THEN /\ response' = launchRedirect(SubSeq(page, 1, Len(page) - 1))
                /\ stack' = stack
           ELSE /\ stack' = <<NewFrame(IF Len(page) = 0 THEN config.mainpage ELSE page,
                                       FALSE, "", "")>>
                /\ response' = response
    /\ UNCHANGED <<config, MainContext, trace, lvars, xvars>>

\* one pass of the "for" loop that searches the .page
Locate ==
    /\ stack # <<>>
    /\ Top.pc = "locate"
    /\ LET f == Top
           pagedata == PageGetData(f.P)
           path == Split(f.P)
       IN  IF pagedata.exists /\ isAvailable(f.innerpage, pagedata)
           THEN stack' = SetTop([f EXCEPT !.pagedata = pagedata,
                                          !.queries = @ + 1,
                                          !.pc = "resolve"])
           ELSE IF Len(path) <= 1
           THEN stack' = SetTop([f EXCEPT !.pagedata = NoPage,
                                          !.queries = @ + 1,
                                          !.pc = "resolve"])
           ELSE stack' = SetTop([f EXCEPT !.pagedata = NoPage,
                                          !.queries = @ + 1,
                                          !.P = Join(RemoveLevel(path))])
    /\ UNCHANGED <<config, response, MainContext, started, trace, lvars, xvars>>

\* from "if pagedata == nil" to verifyRecursion
Resolve ==
    /\ stack # <<>>
    /\ Top.pc = "resolve"
    /\ LET f == Top
           identities == Identities(f.version, f.language)
           instancedata == FirstIdentity("instance", f.P, identities)
       IN  /\ IF ~f.pagedata.exists
              THEN ReturnError(f, ErrNoPage(f.page))
              ELSE IF f.P # f.page /\ f.pagedata.AcceptPathParameters # TRUE
              THEN ReturnError(f, ErrParameters)
              ELSE IF ~f.innerpage /\ f.pagedata.type = "redirect"
              THEN /\ response' = launchRedirect(f.pagedata.Redirect)
                   /\ stack' = SetTop([f EXCEPT !.pc = "ret", !.result = <<>>])
              ELSE IF instancedata = NoIdentity
              THEN ReturnError(f, ErrNoInstance)
              ELSE IF verifyRecursion(f.P)
              THEN ReturnError(f, ErrRecursive)
              ELSE /\ stack' = SetTop([f EXCEPT
                           !.xParams = IF f.P # f.page
                                       THEN URLparams(f.page, f.P)
                                       ELSE <<>>,
                           !.identities = identities,
                           !.instancedata = instancedata,
                           !.pc = "content"])
                   /\ response' = response
           \* the redirect engine on the context of a call that resolved a
           \* redirect descriptor
           /\ trace' = IF /\ f.pagedata.exists
                          /\ ~(f.P # f.page /\ f.pagedata.AcceptPathParameters # TRUE)
                          /\ f.pagedata.type = "redirect"
                       THEN [trace EXCEPT !.redirect =
                                RedirectEngineRun(~f.innerpage, f.pagedata.Redirect,
                                                  f.pagedata.redirectcode)]
                       ELSE trace
    /\ UNCHANGED <<config, MainContext, started, lvars, xvars>>

\* every call sets the Main fields from its own level
NewContext_M(f) ==
    [LocalPage |-> f.page, LocalPageUsed |-> f.P, LocalURLparams |-> f.xParams,
     LocalPageparams |-> f.pagedata, LocalInstanceparams |-> f.instancedata,
     MainPage |-> f.page, MainPageUsed |-> f.P, MainURLparams |-> f.xParams,
     MainPageparams |-> f.pagedata, MainInstanceparams |-> f.instancedata]

\* ctx := &enginecontext.Context{...} and its Main fields
NewContext(f) ==
    IF f.innerpage
    THEN [LocalPage |-> f.page, LocalPageUsed |-> f.P, LocalURLparams |-> f.xParams,
          LocalPageparams |-> f.pagedata, LocalInstanceparams |-> f.instancedata,
          MainPage |-> MainContext.MainPage,
          MainPageUsed |-> MainContext.MainPageUsed,
          MainURLparams |-> MainContext.MainURLparams,
          MainPageparams |-> MainContext.MainPageparams,
          MainInstanceparams |-> MainContext.MainInstanceparams]
    ELSE [LocalPage |-> f.page, LocalPageUsed |-> f.P, LocalURLparams |-> f.xParams,
          LocalPageparams |-> f.pagedata, LocalInstanceparams |-> f.instancedata,
          MainPage |-> f.page, MainPageUsed |-> f.P, MainURLparams |-> f.xParams,
          MainPageparams |-> f.pagedata, MainInstanceparams |-> f.instancedata]

\* the context and the "switch pagedata.Get("type")"
Content ==
    /\ stack # <<>>
    /\ Top.pc = "content"
    /\ LET f == Top
           ctx == NewContext(f)
           g == [f EXCEPT !.ctx = ctx]
           type == f.pagedata.type
           codedata == FirstIdentity("code", f.P, f.identities)
           languagedata == loadLanguage(f.P, f.identities)
           templatedata == loadTemplate(f.P, f.identities)
           call == CallOf(f.P)
       IN  /\ MainContext' = IF f.innerpage THEN MainContext ELSE ctx
           /\ CASE type = "simple" ->
                    IF codedata = NoIdentity
                    THEN ReturnError(g, ErrNoCode("simple"))
                    ELSE IF call.on
                    THEN /\ Len(stack) < MaxDepth
                         /\ stack' = Append(
                                SetTop([g EXCEPT !.codedata = codedata,
                                                 !.languagedata = languagedata,
                                                 !.xdata = TextOf(f.P),
                                                 !.pc = "incall"]),
                                NewFrame(call.page, TRUE, call.version, call.language))
                         /\ response' = response
                    ELSE /\ stack' = SetTop([g EXCEPT !.codedata = codedata,
                                                      !.languagedata = languagedata,
                                                      !.xdata = TextOf(f.P),
                                                      !.pc = "template"])
                         /\ response' = response
                [] type = "library" ->
                    IF ~LibraryGetData(f.P)
                    THEN ReturnError(g, ErrNoCode("library"))
                    ELSE /\ stack' = SetTop([g EXCEPT !.languagedata = languagedata,
                                                      !.templatedata = templatedata,
                                                      !.xdata = TextOf(f.P),
                                                      !.pc = "template"])
                         /\ response' = response
                [] type = "template" ->
                    IF templatedata = NoIdentity
                    THEN ReturnError(g, ErrNoCode("template"))
                    ELSE /\ stack' = SetTop([g EXCEPT !.templatedata = templatedata,
                                                      !.xdata = TextOf(f.P),
                                                      !.pc = "template"])
                         /\ response' = response
                [] type = "language" ->
                    IF languagedata = NoIdentity
                    THEN ReturnError(g, ErrNoCode("language"))
                    ELSE /\ stack' = SetTop([g EXCEPT !.languagedata = languagedata,
                                                      !.xdata = TextOf(f.P),
                                                      !.pc = "template"])
                         /\ response' = response
                [] OTHER ->
                    /\ stack' = SetTop([g EXCEPT !.xdata = Unknown, !.pc = "template"])
                    /\ response' = response
    /\ UNCHANGED <<config, started, trace, lvars, xvars>>

\* "check templates and get templates": the recursive call for the father
Template ==
    /\ stack # <<>>
    /\ Top.pc = "template"
    /\ LET f == Top
           x == f.pagedata.template
       IN  IF x # <<>>
           THEN /\ Len(stack) < MaxDepth
                /\ stack' = Append(SetTop([f EXCEPT !.pc = "intemplate"]),
                                   NewFrame(x, TRUE, f.version, f.language))
           ELSE stack' = SetTop([f EXCEPT !.pc = "ret", !.result = f.xdata])
    /\ UNCHANGED <<config, response, MainContext, started, trace, lvars, xvars>>

\* an inner call returns to the call that made it
Return ==
    /\ Len(stack) >= 2
    /\ Top.pc = "ret"
    /\ LET callee == Top
           caller == stack[Len(stack) - 1]
           rest == SubSeq(stack, 1, Len(stack) - 2)
       IN  IF caller.pc = "intemplate"
           THEN LET fathertemplate == callee.result
                    xdata == Replace(fathertemplate, Token, caller.xdata)
                IN  /\ stack' = Append(rest, [caller EXCEPT !.xdata = xdata,
                                                            !.result = xdata,
                                                            !.pc = "ret"])
                    /\ trace' = [trace EXCEPT
                                    !.replaces = @ + 1,
                                    !.substitutions = @ + Count(fathertemplate, Token)]
           ELSE /\ stack' = Append(rest, [caller EXCEPT !.xdata = @ \o callee.result,
                                                        !.pc = "template"])
                /\ trace' = trace
    /\ UNCHANGED <<config, response, MainContext, started, lvars, xvars>>

\* Engine.Start writes the code of the page
Write ==
    /\ Len(stack) = 1
    /\ Top.pc = "ret"
    /\ response' = [response EXCEPT !.body = Top.result, !.written = TRUE]
    /\ stack' = <<>>
    /\ trace' = [trace EXCEPT !.final = Top.result, !.failed = Top.failed]
    /\ UNCHANGED <<config, MainContext, started, lvars, xvars>>

-----------------------------------------------------------------------------
(* LibraryEngineInstance.Run: the hot-reload library engine *)

Procs == {"r1", "r2"}
SrcKinds == {"good", "nocompile", "noload", "norun", "badsig"}

NoHandle == [path |-> 0, rev |-> 0]

\* lib = &assets.Plugin{...} of a cache miss
NewPlugin ==
    [alloc |-> TRUE, Status |-> 0, Messages |-> <<>>, Version |-> 0,
     PluginVPath |-> 1, Libs |-> [b \in {} |-> NoHandle], Lib |-> NoHandle,
     Run |-> NoHandle]

NoPlugin == [NewPlugin EXCEPT !.alloc = FALSE]

NoResult == [kind |-> "none", messages |-> <<>>, handle |-> NoHandle, fct |-> <<>>]

\* a call through a nil lib.Lib: the request ends without an answer
Panic == [kind |-> "panic", messages |-> <<>>, handle |-> NoHandle, fct |-> <<>>]

IdleProc == [pc |-> "idle", lib |-> "", buildid |-> 0]

FileExists(v) == v \in DOMAIN fs.artifacts

SourceExists == fs.exists

\* utils.FileValidator: the source was not modified after the given time
FileValidator(dptime) == fs.exists /\ ~(fs.mtime > dptime)

\* go tool buildid: a fingerprint of the content the plugin was built from
getBuildId(v) == IF FileExists(v) THEN fs.artifacts[v].rev ELSE 0

KindOf(rev) == fs.kinds[rev]

\* compiler.PleaseCompile: does the current source compile
Compiles == fs.exists /\ KindOf(fs.rev) # "nocompile"

\* compiler.PleaseCompile: the plugin file a successful compile writes
Compiled(lib) == (lib.Version + 1) :> [mtime |-> fs.clock, rev |-> fs.rev]

\* plugin.Open
Opens(v) == FileExists(v) /\ KindOf(fs.artifacts[v].rev) # "noload"

\* lib.Lib.Lookup("Run")
HasRun(handle) == KindOf(handle.rev) # "norun"

\* fct.(func(*assets.Context, *xcore.XTemplate, *xcore.XLanguage, interface{}) interface{})
StandardRun(handle) == KindOf(handle.rev) # "badsig"

MissingMessage == "Source file does not exists."
CompileMessage == "could not compile"
LoadMessage == "could not load"
NoRunMessage == "does not contain a Run function"
BadRunMessage == "does not contain a valid standard Run function"

Idle(p) == procs[p].pc = "idle"

\* the request tasks are taken in order: a request runs as the first free one
Before(q, p) == q = "r1" /\ p = "r2"

Lib(p) == heap[procs[p].lib]

SetLib(p, lib) == [heap EXCEPT ![procs[p].lib] = lib]

Goto(p, pc) == [procs EXCEPT ![p].pc = pc]

\* what is observed of an epoch: everything while its invocations all began
\* after the source change, and otherwise only what is asked of every state
Note(e) ==
    IF epoch.quiet THEN e
    ELSE [epoch EXCEPT !.runs = e.runs, !.opens = e.opens, !.returned = e.returned]

\* "return lib.Messages" and the other returns of Run
Finish(p, result) ==
    /\ procs' = [procs EXCEPT ![p] = IdleProc]
    /\ epoch' = Note([epoch EXCEPT
                        !.done = @ + 1,
                        !.returned = result,
                        !.missed = @ \/ result.kind \in {"nofunction", "badfunction"}])

MessagesOf(lib) ==
    [kind |-> "messages", messages |-> lib.Messages, handle |-> NoHandle, fct |-> <<>>]

\* the successful plugin.Open calls of the process so far, by build id
NoOpens == [b \in {} |-> 0]

NoLatch == [on |-> FALSE, messages |-> <<>>, compiles |-> 0, opens |-> NoOpens]

Opened(opens, buildid) ==
    IF buildid \in DOMAIN opens
    THEN [opens EXCEPT ![buildid] = @ + 1]
    ELSE (buildid :> 1) @@ opens

CachedPlugin == IF LibraryCache = "" THEN NoPlugin ELSE heap[LibraryCache]

\* an invocation that begins, alone, on a cached module that an invocation
\* since the last change of the source left in Error: what the module and
\* the counters were
Latch ==
    IF /\ ~epoch.latch.on
       /\ \A q \in Procs : Idle(q)
       /\ epoch.quiet /\ epoch.done >= 1
       /\ CachedPlugin.Status = 2
    THEN [on |-> TRUE, messages |-> CachedPlugin.Messages,
          compiles |-> epoch.compiles, opens |-> epoch.opens]
    ELSE epoch.latch

\* cdata, _ := LibraryCache.Get(p.SourcePath)
Get(p) ==
    /\ Idle(p)
    /\ \A q \in Procs : Before(q, p) => ~Idle(q)
    /\ epoch.runs < MaxRuns
    /\ IF LibraryCache # ""
       THEN /\ procs' = [procs EXCEPT ![p].pc = "source", ![p].lib = LibraryCache]
            /\ heap' = heap
       ELSE /\ procs' = [procs EXCEPT ![p].pc = "source", ![p].lib = p]
            /\ heap' = [heap EXCEPT ![p] = NewPlugin]
    /\ epoch' = Note([epoch EXCEPT !.runs = @ + 1,
                                    !.overlap = @ \/ \E q \in Procs : ~Idle(q),
                                    !.returned = NoResult,
                                    !.latch = Latch])
    /\ UNCHANGED <<fs, LibraryCache, evars, xvars>>

\* if !utils.FileExists(lib.SourcePath)
CheckSource(p) ==
    /\ procs[p].pc = "source"
    /\ IF ~SourceExists
       THEN IF Lib(p).Status # 2
            THEN procs' = Goto(p, "missing") /\ epoch' = epoch
            ELSE Finish(p, MessagesOf(Lib(p)))
       ELSE procs' = Goto(p, "stale") /\ epoch' = epoch
    /\ UNCHANGED <<fs, LibraryCache, heap, evars, xvars>>

\* lib.Status = 2; lib.Messages += ...; LibraryCache.Set; return lib.Messages
MarkMissing(p) ==
    /\ procs[p].pc = "missing"
    /\ LET lib == [Lib(p) EXCEPT !.Status = 2,
                                 !.Messages = Append(@, MissingMessage)]
       IN  /\ heap' = SetLib(p, lib)
           /\ LibraryCache' = procs[p].lib
           /\ Finish(p, MessagesOf(lib))
    /\ UNCHANGED <<fs, evars, xvars>>

\* mustcompile: the plugin file is missing or older than the source
MustCompile(lib) ==
    ~(FileExists(lib.PluginVPath) /\ FileValidator(fs.artifacts[lib.PluginVPath].mtime))

CheckStale(p) ==
    /\ procs[p].pc = "stale"
    /\ procs' = Goto(p, IF MustCompile(Lib(p)) THEN "compile" ELSE "load")
    /\ UNCHANGED <<fs, LibraryCache, heap, epoch, evars, xvars>>

\* lib.Status = 0 and the call of compiler.PleaseCompile
CompileBegin(p) ==
    /\ procs[p].pc = "compile"
    /\ heap' = SetLib(p, [Lib(p) EXCEPT !.Status = 0])
    /\ procs' = Goto(p, "compiling")
    /\ epoch' = Note([epoch EXCEPT !.compiles = @ + 1])
    /\ UNCHANGED <<fs, LibraryCache, evars, xvars>>

\* compiler.PleaseCompile returns
CompileEnd(p) ==
    /\ procs[p].pc = "compiling"
    /\ UNCHANGED <<evars, xvars>>
    /\ IF Compiles
       THEN /\ fs' = [fs EXCEPT !.artifacts = Compiled(Lib(p)) @@ @]
            /\ heap' = SetLib(p, [Lib(p) EXCEPT !.Version = @ + 1,
                                                !.PluginVPath = Lib(p).Version + 1])
            /\ procs' = Goto(p, "load")
            /\ UNCHANGED <<LibraryCache, epoch>>
       ELSE LET lib == [Lib(p) EXCEPT !.Status = 2,
                                      !.Messages = Append(@, CompileMessage)]
            IN  /\ heap' = SetLib(p, lib)
                /\ LibraryCache' = procs[p].lib
                /\ Finish(p, MessagesOf(lib))
                /\ fs' = fs

\* if lib.Status == 0: the build id of the plugin file
Load(p) ==
    /\ procs[p].pc = "load"
    /\ IF Lib(p).Status = 0
       THEN procs' = [procs EXCEPT ![p].pc = "open",
                                   ![p].buildid = getBuildId(Lib(p).PluginVPath)]
       ELSE procs' = Goto(p, "dispatch")
    /\ UNCHANGED <<fs, LibraryCache, heap, epoch, evars, xvars>>

Failed(p, lib, message) ==
    LET l == [lib EXCEPT !.Status = 2, !.Messages = Append(@, message)]
    IN  /\ heap' = SetLib(p, l)
        /\ LibraryCache' = procs[p].lib
        /\ Finish(p, MessagesOf(l))
        /\ fs' = fs

\* plg := lib.Libs[buildid]; the handle is reused, or plugin.Open loads the
\* plugin file and the handle is registered (a failed plugin.Open leaves nil)
Open(p) ==
    /\ procs[p].pc = "open"
    /\ UNCHANGED <<evars, xvars>>
    /\ LET lib == Lib(p)
           buildid == procs[p].buildid
           known == buildid \in DOMAIN lib.Libs
           handle == IF known THEN lib.Libs[buildid]
                     ELSE [path |-> lib.PluginVPath, rev |-> getBuildId(lib.PluginVPath)]
           loaded == [lib EXCEPT !.Lib = handle,
                                 !.Libs = IF known THEN @ ELSE (buildid :> handle) @@ @]
       IN  IF ~known /\ ~Opens(lib.PluginVPath)
           THEN Failed(p, [lib EXCEPT !.Lib = NoHandle], LoadMessage)
           ELSE /\ heap' = SetLib(p, loaded)
                /\ procs' = Goto(p, "lookup")
                /\ epoch' = [epoch EXCEPT
                                !.opens = IF known THEN @ ELSE Opened(@, buildid)]
                /\ UNCHANGED <<fs, LibraryCache>>

\* fct, err := lib.Lib.Lookup("Run") ... LibraryCache.Set(lib.SourcePath, lib)
LookupRun(p) ==
    /\ procs[p].pc = "lookup"
    /\ UNCHANGED <<evars, xvars>>
    /\ LET lib == Lib(p)
       IN  IF lib.Lib = NoHandle
           THEN /\ Finish(p, Panic)
                /\ UNCHANGED <<fs, LibraryCache, heap>>
           ELSE IF ~HasRun(lib.Lib)
           THEN Failed(p, lib, NoRunMessage)
           ELSE IF ~StandardRun(lib.Lib)
           THEN Failed(p, lib, BadRunMessage)
           ELSE /\ heap' = SetLib(p, [lib EXCEPT !.Run = lib.Lib, !.Status = 1])
                /\ LibraryCache' = procs[p].lib
                /\ procs' = Goto(p, "dispatch")
                /\ UNCHANGED <<fs, epoch>>

RunName == <<"R", "u", "n">>
OddName == <<"O", "d", "d">>
CodeParam == <<"c", "o", "d", "e">>

\* ctx.MainURLparams of the requests: none, or the asked service
URLParams == {<<>>, <<CodeParam>>, <<<<"o", "d", "d">>>>, <<<<"n", "o", "p", "e">>>>}

Upper(c) ==
    CASE c = "c" -> "C" [] c = "n" -> "N" [] c = "o" -> "O" [] c = "r" -> "R"
      [] OTHER -> c

\* strings.Title of one word
Title(word) == IF word = <<>> THEN word ELSE <<Upper(word[1])>> \o Tail(word)

\* fctname: "Run", or the title of the first URL parameter unless it is "code"
FunctionName(params) ==
    IF Len(params) > 0 /\ params[1] # CodeParam THEN Title(params[1]) ELSE RunName

\* the symbols of a plugin: Run as the source has it, and an Odd function
\* of another signature
Symbols(handle) == (IF HasRun(handle) THEN {RunName} ELSE {}) \cup {OddName}

\* finds every name
Lookup_M(handle, fctname) == TRUE

\* fct, err := lib.Lib.Lookup(fctname)
Lookup(handle, fctname) == fctname \in Symbols(handle)

\* xfct, ok := fct.(func(*assets.Context, *xcore.XTemplate, *xcore.XLanguage, interface{}) interface{})
Standard(handle, fctname) ==
    IF fctname = RunName THEN StandardRun(handle) ELSE fctname # OddName

Answer(kind, handle, fctname) ==
    [kind |-> kind, messages |-> <<>>, handle |-> handle, fct |-> fctname]

\* if lib.Status != 1 { return lib.Messages }, the lookup of the asked
\* function and its call
Dispatch(p) ==
    /\ procs[p].pc = "dispatch"
    /\ heap' = heap
    /\ IF Lib(p).Status # 1
       THEN Finish(p, MessagesOf(Lib(p)))
       ELSE \E params \in URLParams :
                LET fctname == FunctionName(params)
                    handle == Lib(p).Lib
                IN  IF handle = NoHandle
                    THEN Finish(p, Panic)
                    ELSE IF ~Lookup(handle, fctname)
                    THEN Finish(p, Answer("nofunction", handle, fctname))
                    ELSE IF ~Standard(handle, fctname)
                    THEN Finish(p, Answer("badfunction", handle, fctname))
                    ELSE Finish(p, Answer("content", handle, fctname))
    /\ UNCHANGED <<fs, LibraryCache, evars, xvars>>

CountOf(messages, m) == Cardinality({i \in 1..Len(messages) : messages[i] = m})

\* the source file is written again, with the same or with new content
Touch ==
    /\ fs.exists
    /\ fs.touches < MaxTouches
    /\ \E same \in BOOLEAN, kind \in SrcKinds :
        /\ same => kind = KindOf(fs.rev)
        /\ fs' = [fs EXCEPT !.clock = @ + 1, !.mtime = fs.clock + 1,
                            !.touches = @ + 1,
                            !.rev = IF same THEN @ ELSE Len(fs.kinds) + 1,
                            !.kinds = IF same THEN @ ELSE Append(@, kind)]
    /\ epoch' = [epoch EXCEPT !.compiles = 0, !.done = 0, !.overlap = FALSE,
                              !.returned = NoResult, !.latch = NoLatch,
                              !.missed = FALSE,
                              !.quiet = \A q \in Procs : Idle(q),
                              !.fromReady = /\ \A q \in Procs : Idle(q)
                                            /\ CachedPlugin.Status = 1]
    /\ UNCHANGED <<LibraryCache, heap, procs, evars, xvars>>

\* the source file is removed
Delete ==
    /\ fs.exists
    /\ fs.touches < MaxTouches
    /\ fs' = [fs EXCEPT !.exists = FALSE, !.touches = @ + 1]
    /\ epoch' = [epoch EXCEPT !.done = 0, !.overlap = FALSE,
                              !.returned = NoResult, !.latch = NoLatch,
                              !.missed = FALSE,
                              !.quiet = \A q \in Procs : Idle(q),
                              !.fromReady = FALSE,
                              !.deleted = TRUE,
                              !.missingBefore = CountOf(CachedPlugin.Messages, MissingMessage)]
    /\ UNCHANGED <<LibraryCache, heap, procs, evars, xvars>>

-----------------------------------------------------------------------------
(* LibraryEngineInstance.Run: the shape of the answer of a dispatch *)

Text(t) == [textual |-> TRUE, text |-> t, kind |-> "string"]

\* a result that is not a string: kind is what json.Marshal is given
Value(kind) == [textual |-> FALSE, text |-> <<>>, kind |-> kind]

NoLanguage == [nil |-> TRUE, entries |-> [id \in {} |-> <<>>]]

Language(entries) == [nil |-> FALSE, entries |-> entries]

Placeholder(id) == <<"#", "#", id, "#", "#">>

\* for id, lg := range language.GetEntries() { strcode = strings.ReplaceAll(...) }
\* with the entries taken in the given order
RECURSIVE Inject(_, _, _)
Inject(strcode, entries, order) ==
    IF order = <<>> THEN strcode
    ELSE Inject(Replace(strcode, Placeholder(order[1]), entries[order[1]]),
                entries, Tail(order))

\* the orders in which range may visit a map
Orders(entries) ==
    {order \in UNION {[1..n -> DOMAIN entries] : n \in {Cardinality(DOMAIN entries)}} :
        \A i, j \in DOMAIN order : i # j => order[i] # order[j]}

\* xml.Unmarshal([]byte(strcode), app): the markup is read when its tag is closed
Unmarshals(strcode) == strcode # <<>> /\ strcode[1] = "<" /\ strcode[Len(strcode)] = ">"

\* json.Marshal of a string: the quote and the characters of markup are escaped
EscapeChar(c) ==
    CASE c = "\"" -> <<"\\", "\"">>
      [] c = "<" -> <<"\\", "u", "0", "0", "3", "c">>
      [] c = ">" -> <<"\\", "u", "0", "0", "3", "e">>
      [] OTHER -> <<c>>

RECURSIVE Escape(_)
Escape(t) == IF t = <<>> THEN <<>> ELSE EscapeChar(t[1]) \o Escape(Tail(t))

\* json.Marshal(map[string]string{"message": strcode})
Message(strcode) == <<"{", "\"message\":", "\"">> \o Escape(strcode) \o <<"\"", "}">>

\* json.Marshal(app) of the application read from the markup
Structured(strcode) == <<"{", "\"application\":">> \o Escape(strcode) \o <<"}">>

\* json.Marshal(x1) of a result that is not a string
Marshals(x1) == x1.kind \notin {"func", "chan"}

Encoded(x1) == <<"json:", x1.kind>>

ErrUnmarshal == <<"ERROR: UNMARSHALLING XML LIBRARY, Error: ">>
ErrMarshal == <<"ERROR: MARSHALLING JSON DATA, Error: ">>

Returned(kind, content) == [kind |-> kind, content |-> content]

\* strcode[0] of an empty string: the request ends without an answer
Panics == Returned("panic", <<>>)

\* x1 := xfct(ctx, template, language, e) and what is returned for it
Shaped(x1, out, language, order) ==
    IF out # <<"j", "s", "o", "n">> THEN Returned("raw", x1)
    ELSE IF ~x1.textual
    THEN IF Marshals(x1) THEN Returned("encoded", Encoded(x1))
         ELSE Returned("error", ErrMarshal)
    ELSE IF x1.text = <<>> THEN Returned("empty", <<>>)
    ELSE LET strcode == IF language.nil THEN x1.text
                        ELSE Inject(x1.text, language.entries, order)
         IN  IF strcode = <<>> THEN Panics
             ELSE IF strcode[1] = "<"
             THEN IF Unmarshals(strcode)
                  THEN Returned("structured", Structured(strcode))
                  ELSE Returned("error", ErrUnmarshal)
             ELSE IF strcode[1] = "{" \/ strcode[1] = "["
             THEN Returned("verbatim", strcode)
             ELSE Returned("message", Message(strcode))

NoReturn == [kind |-> "none", content |-> <<>>]

JIdle == answer = [on |-> FALSE]

-----------------------------------------------------------------------------
(* stat: the request statistics and the cleaner *)

Tasks == {"t1", "t2"}

\* delta := time.Minute * 2
Delta == 2

\* time.Sleep(time.Minute)
Pause == 1

Lengths == {1, 2}
Codes == {0, 200}

NoTask == [pc |-> "idle", r |-> 0, length |-> 0, read |-> 0]

\* CreateStat: go s.Clean()
NewCleaner == [pc |-> "sleep", wake |-> 0, n |-> 0, stale |-> {}, lost |-> {}]

\* CreateStat
NewStat == [RequestsTotal |-> 0, LengthServed |-> 0, Requests |-> <<>>, mutex |-> ""]

NoTally == [created |-> 0, updated |-> 0, lengths |-> 0, returned |-> {}]

\* r := &RequestStat{Id: RequestCounter, StartTime: time.Now(), Time: time.Now(), ...}
NewRequestStat(code, length) ==
    [Id |-> RequestCounter, StartTime |-> clock, Time |-> clock, Code |-> code,
     Length |-> length, Duration |-> 0, Alive |-> TRUE]

Step(t, pc) == [tasks EXCEPT ![t].pc = pc]

\* SystemStat.mutex.Lock()
Lock(who) ==
    /\ SystemStat.mutex = ""
    /\ SystemStat' = [SystemStat EXCEPT !.mutex = who]

\* the requests are numbered in the order in which they arrive
Earlier(u, t) == u = "t1" /\ t = "t2"

\* the entry of CreateRequestStat, once in a request, up to the new RequestStat
CreateRequestStat(t) ==
    /\ tasks[t].pc = "idle"
    /\ tasks[t].r = 0
    /\ \A u \in Tasks : Earlier(u, t) => tasks[u].r # 0
    /\ \E code \in Codes \ {0}, length \in Lengths :
        /\ stats' = Append(stats, NewRequestStat(code, length))
        /\ tasks' = [tasks EXCEPT ![t] = [pc |-> "counter", r |-> Len(stats) + 1,
                                          length |-> length, read |-> 0]]
        /\ tally' = [tally EXCEPT !.created = @ + 1, !.lengths = @ + length]
    /\ UNCHANGED <<clock, SystemStat, RequestCounter, cleaner, evars, lvars, jvars>>

\* RequestCounter++: the counter is read
CounterRead(t) ==
    /\ tasks[t].pc = "counter"
    /\ tasks' = [tasks EXCEPT ![t].pc = "counted", ![t].read = RequestCounter]
    /\ UNCHANGED <<clock, SystemStat, RequestCounter, stats, cleaner, tally,
                   evars, lvars, jvars>>

\* RequestCounter++: the counter is written
CounterWrite(t) ==
    /\ tasks[t].pc = "counted"
    /\ RequestCounter' = tasks[t].read + 1
    /\ tasks' = [tasks EXCEPT ![t].pc = "serve", ![t].read = 0]
    /\ UNCHANGED <<clock, SystemStat, stats, cleaner, tally, evars, lvars, jvars>>

\* SystemStat.LengthServed += length: the total is read
ServedRead(t) ==
    /\ tasks[t].pc = "serve"
    /\ tasks' = [tasks EXCEPT ![t].pc = "served", ![t].read = SystemStat.LengthServed]
    /\ UNCHANGED <<clock, SystemStat, RequestCounter, stats, cleaner, tally,
                   evars, lvars, jvars>>

\* SystemStat.LengthServed += length: the total is written (in UpdateStat,
\* r.Duration follows)
ServedWrite(t) ==
    /\ tasks[t].pc = "served"
    /\ SystemStat' = [SystemStat EXCEPT !.LengthServed = tasks[t].read + tasks[t].length]
    /\ stats' = IF tasks[t].r \in tally.returned
                THEN [stats EXCEPT ![tasks[t].r].Duration =
                                        stats[tasks[t].r].Time - stats[tasks[t].r].StartTime]
                ELSE stats
    /\ tasks' = [tasks EXCEPT ![t].pc = "lock", ![t].read = 0]
    /\ UNCHANGED <<clock, RequestCounter, cleaner, tally, evars, lvars, jvars>>

\* SystemStat.mutex.Lock() of CreateRequestStat and of UpdateStat
TaskLock(t) ==
    /\ tasks[t].pc = "lock"
    /\ Lock(t)
    /\ tasks' = Step(t, IF tasks[t].r \in tally.returned THEN "move" ELSE "append")
    /\ UNCHANGED <<clock, RequestCounter, stats, cleaner, tally, evars, lvars, jvars>>

\* SystemStat.RequestsTotal++; SystemStat.Requests = append(SystemStat.Requests, r)
AppendStat(t) ==
    /\ tasks[t].pc = "append"
    /\ SystemStat' = [SystemStat EXCEPT !.RequestsTotal = @ + 1,
                                        !.Requests = Append(@, tasks[t].r)]
    /\ tasks' = Step(t, "unlock")
    /\ UNCHANGED <<clock, RequestCounter, stats, cleaner, tally, evars, lvars, jvars>>

\* the list without its last occurrence of r
RECURSIVE RemoveLast(_, _)
RemoveLast(list, r) ==
    IF list = <<>> THEN list
    ELSE IF list[Len(list)] = r THEN SubSeq(list, 1, Len(list) - 1)
    ELSE Append(RemoveLast(SubSeq(list, 1, Len(list) - 1), r), list[Len(list)])

\* "Put the stat at the end of the pile": the request is taken out of the
\* list where it is found and appended
MoveStat(t) ==
    /\ tasks[t].pc = "move"
    /\ SystemStat' = [SystemStat EXCEPT
                        !.Requests = Append(RemoveLast(@, tasks[t].r), tasks[t].r)]
    /\ tasks' = Step(t, "unlock")
    /\ UNCHANGED <<clock, RequestCounter, stats, cleaner, tally, evars, lvars, jvars>>

\* SystemStat.mutex.Unlock() and the return
TaskUnlock(t) ==
    /\ tasks[t].pc = "unlock"
    /\ SystemStat' = [SystemStat EXCEPT !.mutex = ""]
    /\ tally' = [tally EXCEPT !.returned = @ \cup {tasks[t].r}]
    /\ tasks' = [tasks EXCEPT ![t].pc = "idle", ![t].length = 0]
    /\ UNCHANGED <<clock, RequestCounter, stats, cleaner, evars, lvars, jvars>>

\* the entry of r.UpdateStat: r.Time = time.Now(), r.Code, r.Length
UpdateStat(t) ==
    /\ tasks[t].pc = "idle"
    /\ tasks[t].r \in tally.returned
    /\ tally.updated < MaxUpdates
    /\ \E code \in Codes, length \in Lengths :
        /\ stats' = [stats EXCEPT ![tasks[t].r].Time = clock,
                                  ![tasks[t].r].Code = IF code # 0 THEN code ELSE @,
                                  ![tasks[t].r].Length = @ + length]
        /\ tasks' = [tasks EXCEPT ![t].pc = "serve", ![t].length = length]
        /\ tally' = [tally EXCEPT !.updated = @ + 1, !.lengths = @ + length]
    /\ UNCHANGED <<clock, SystemStat, RequestCounter, cleaner, evars, lvars, jvars>>

\* r.Time.Add(delta).Before(n)
Expired(r, n) == stats[r].Time + Delta < n

\* the index on which the scan of Clean ends: last = i for every entry that
\* expired, up to the first one that did not
RECURSIVE Scan(_, _, _, _)
Scan(list, n, i, last) ==
    IF i >= Len(list) THEN last
    ELSE IF Expired(list[i + 1], n) THEN Scan(list, n, i + 1, i)
    ELSE last

Entries(list) == {list[i] : i \in 1..Len(list)}

\* n := time.Now() of a pass of Clean, when the sleep is over
CleanBegin ==
    /\ cleaner.pc = "sleep"
    /\ clock >= cleaner.wake
    /\ cleaner' = [cleaner EXCEPT !.pc = "lock", !.n = clock]
    /\ UNCHANGED <<clock, SystemStat, RequestCounter, stats, tasks, tally,
                   evars, lvars, jvars>>

\* s.mutex.Lock()
CleanLock ==
    /\ cleaner.pc = "lock"
    /\ Lock("cleaner")
    /\ cleaner' = [cleaner EXCEPT !.pc = "scan"]
    /\ UNCHANGED <<clock, RequestCounter, stats, tasks, tally, evars, lvars, jvars>>

\* the scan and s.Requests = s.Requests[last:]
CleanScan ==
    /\ cleaner.pc = "scan"
    /\ LET list == SystemStat.Requests
           last == Scan(list, cleaner.n, 0, 0)
           kept == SubSeq(list, last + 1, Len(list))
       IN  /\ SystemStat' = [SystemStat EXCEPT !.Requests = kept]
           /\ cleaner' = [cleaner EXCEPT
                            !.pc = "unlock",
                            !.stale = {r \in Entries(kept) : Expired(r, cleaner.n)},
                            !.lost = {r \in Entries(list) \ Entries(kept) :
                                        ~Expired(r, cleaner.n)}]
    /\ UNCHANGED <<clock, RequestCounter, stats, tasks, tally, evars, lvars, jvars>>

\* s.mutex.Unlock(); time.Sleep(time.Minute)
CleanUnlock ==
    /\ cleaner.pc = "unlock"
    /\ SystemStat' = [SystemStat EXCEPT !.mutex = ""]
    /\ cleaner' = [cleaner EXCEPT !.pc = "sleep", !.wake = clock + Pause, !.n = 0,
                                   !.stale = {}, !.lost = {}]
    /\ UNCHANGED <<clock, RequestCounter, stats, tasks, tally, evars, lvars, jvars>>

\* a minute passes
Tick ==
    /\ clock < MaxClock
    /\ clock' = clock + 1
    /\ UNCHANGED <<SystemStat, RequestCounter, stats, tasks, cleaner, tally,
                   evars, lvars, jvars>>

SIdle ==
    /\ clock = 0
    /\ SystemStat = NewStat
    /\ RequestCounter = 0
    /\ stats = <<>>
    /\ tasks = [t \in Tasks |-> NoTask]
    /\ cleaner = NewCleaner
    /\ tally = NoTally

XIdle == JIdle /\ SIdle

\* the call of the function and the return of Run
Shape ==
    /\ answer.on /\ ~answer.done
    /\ \E order \in Orders(answer.language.entries) :
        answer' = [answer EXCEPT !.done = TRUE, !.order = order,
                    !.returned = Shaped(answer.x1, answer.out, answer.language, order)]
    /\ UNCHANGED <<evars, lvars, svars>>

\* the disk when the server starts: no plugin file, or one of an earlier run
InitialFiles ==
    { [exists |-> TRUE, clock |-> 1, mtime |-> 1, touches |-> 0, rev |-> 1,
       kinds |-> <<kind>>, artifacts |-> artifacts]
      : kind \in SrcKinds,
        artifacts \in { [v \in {} |-> [mtime |-> 0, rev |-> 0]],
                        (1 :> [mtime |-> 1, rev |-> 1]),
                        (1 :> [mtime |-> 0, rev |-> 1]) } }

NoEpoch == [runs |-> 0, compiles |-> 0, done |-> 0, quiet |-> TRUE,
            overlap |-> FALSE, returned |-> NoResult, fromReady |-> FALSE,
            deleted |-> FALSE, missingBefore |-> 0,
            opens |-> NoOpens, latch |-> NoLatch, missed |-> FALSE]

LIdle ==
    /\ fs = [exists |-> FALSE, clock |-> 0, mtime |-> 0, touches |-> 0, rev |-> 0,
             kinds |-> <<>>, artifacts |-> [v \in {} |-> [mtime |-> 0, rev |-> 0]]]
    /\ LibraryCache = ""
    /\ heap = [p \in Procs |-> NoPlugin]
    /\ procs = [p \in Procs |-> IdleProc]
    /\ epoch = NoEpoch

NoConfig == [family |-> "none"]

EIdle ==
    /\ config = NoConfig
    /\ stack = <<>>
    /\ response = NoResponse
    /\ MainContext = NoContext
    /\ started = TRUE
    /\ trace = [replaces |-> 0, substitutions |-> 0, final |-> <<>>, failed |-> FALSE,
                redirect |-> NoRedirect]

LInit ==
    /\ fs \in InitialFiles
    /\ LibraryCache = ""
    /\ heap = [p \in Procs |-> NoPlugin]
    /\ procs = [p \in Procs |-> IdleProc]
    /\ epoch = NoEpoch
    /\ EIdle
    /\ XIdle

LNext ==
    \/ \E p \in Procs : Get(p)
    \/ \E p \in Procs : CheckSource(p)
    \/ \E p \in Procs : MarkMissing(p)
    \/ \E p \in Procs : CheckStale(p)
    \/ \E p \in Procs : CompileBegin(p)
    \/ \E p \in Procs : CompileEnd(p)
    \/ \E p \in Procs : Load(p)
    \/ \E p \in Procs : Open(p)
    \/ \E p \in Procs : LookupRun(p)
    \/ \E p \in Procs : Dispatch(p)
    \/ Touch
    \/ Delete

SpecLibrary == LInit /\ [][LNext]_vars

-----------------------------------------------------------------------------
(* The results, formats and languages the shaping is explored on *)

ShapeTexts ==
    { <<>>, <<"a">>, <<"a", "\"">>, <<" ", "<", "a", ">">>,
      <<"<", "a", ">">>, <<"<", "a">>, <<"{", "a", "}">>, <<"[", "a", "]">>,
      Placeholder("a"), Placeholder("a") \o <<">">>, <<"{">> \o Placeholder("a"),
      Placeholder("b") }

ShapeValues == {Text(t) : t \in ShapeTexts} \cup {Value(k) : k \in {"number", "map", "func"}}

ShapeOuts == {<<"s", "t", "r", "i", "n", "g">>, <<"j", "s", "o", "n">>, <<"x", "m", "l">>}

ShapeLanguages ==
    { NoLanguage,
      Language([id \in {} |-> <<>>]),
      Language(("a" :> <<"<", "b">>)),
      Language(("a" :> <<"x">>)),
      Language(("a" :> <<>>)),
      Language(("a" :> Placeholder("b")) @@ ("b" :> <<"{">>)) }

JInit ==
    /\ answer \in { [on |-> TRUE, done |-> FALSE, x1 |-> x1, out |-> out,
                     language |-> language, order |-> <<>>, returned |-> NoReturn]
                    : x1 \in ShapeValues, out \in ShapeOuts, language \in ShapeLanguages }
    /\ EIdle
    /\ LIdle
    /\ SIdle

JNext == Shape

SpecShape == JInit /\ [][JNext]_vars

\* stat.Start(): the statistics of a server that starts
SInit ==
    /\ SIdle
    /\ JIdle
    /\ EIdle
    /\ LIdle

SNext ==
    \/ \E t \in Tasks : CreateRequestStat(t)
    \/ \E t \in Tasks : CounterRead(t)
    \/ \E t \in Tasks : CounterWrite(t)
    \/ \E t \in Tasks : ServedRead(t)
    \/ \E t \in Tasks : ServedWrite(t)
    \/ \E t \in Tasks : TaskLock(t)
    \/ \E t \in Tasks : AppendStat(t)
    \/ \E t \in Tasks : MoveStat(t)
    \/ \E t \in Tasks : TaskUnlock(t)
    \/ \E t \in Tasks : UpdateStat(t)
    \/ CleanBegin
    \/ CleanLock
    \/ CleanScan
    \/ CleanUnlock
    \/ Tick

SpecStat == SInit /\ [][SNext]_vars

-----------------------------------------------------------------------------
(* The configurations and requests the engine is explored on *)

Kinds == {"instance", "code", "template", "language"}
VersionNames == {"", "v1", "v2"}
LanguageNames == {"", "en", "fr"}
AllIdentities == {<<v, l>> : v \in VersionNames, l \in LanguageNames}
Wild == {<<"", "">>}
StatusOpts == {"absent", "published", "hidden", "template", "block"}
RedirectCodes == {0, 301, 302, 303, 307, 308, 999}

X == <<"x">>
TokenLeft == <<"[", "[", "C", "O", "N">>
TokenRight == <<"T", "E", "N", "T", "]", "]">>
Texts == {<<>>, X, Token, X \o Token \o X, Token \o Token,
          TokenLeft \o Token \o TokenRight, TokenRight, TokenLeft \o Token}

PageA == <<"a">>
PageW == <<"w">>
PageZ == <<"z">>
SpinePath(k) ==
    [i \in 1..(2 * k - 1) |->
        IF i % 2 = 0 THEN "/" ELSE IF ((i + 1) \div 2) % 2 = 1 THEN "a" ELSE "b"]
Parent(k) == [i \in 1..k |-> "t"]

LPages == {SpinePath(k) : k \in 1..MaxSegs}
          \cup {<<"b">>, <<"a", "/", "a">>, <<"a", "/", "/", "b">>, <<"a", "/">>, <<>>}

PresentAll(S, ps) == [k \in Kinds |-> [p \in ps |-> S]]

Scenario(family, pages, texts, present, calls, version, language, url, chain) ==
    [family |-> family, pages |-> pages, texts |-> texts, present |-> present,
     libraries |-> DOMAIN pages, calls |-> calls, version |-> version,
     language |-> language, mainpage |-> PageA, url |-> url, chain |-> chain]

NoCalls == [p \in {} |-> NoCall]

\* ancestor fallback: every status along one path, top-level and inner
LocatorScenarios ==
    { LET keys == {SpinePath(k) : k \in {j \in 1..MaxSegs : st[j] # "absent"}}
          spine == [p \in keys |-> Desc(st[(Len(p) + 1) \div 2], "simple", <<>>, acc)]
          pages == IF inner
                   THEN (PageW :> Desc("published", "simple", page, FALSE)) @@ spine
                   ELSE spine
      IN  Scenario("locator", pages, [p \in DOMAIN pages |-> X],
                   PresentAll(Wild, DOMAIN pages), NoCalls, "", "en",
                   IF inner THEN <<"/">> \o PageW ELSE <<"/">> \o page, 0)
      : st \in [1..MaxSegs -> StatusOpts], acc \in BOOLEAN, inner \in BOOLEAN,
        page \in LPages }

\* identity fallback: page w calls page a with a version and a language
SmallSets == {S \in SUBSET AllIdentities : Cardinality(S) <= MaxPresent}

IdentityScenarios ==
    { LET pages == (PageW :> Desc("published", "simple", <<>>, FALSE))
                   @@ (PageA :> Desc("published", ty, <<>>, FALSE))
          present == [k \in Kinds |->
                        (PageW :> Wild)
                        @@ (PageA :> IF k = "instance" THEN S
                                     ELSE IF other = "same" THEN S
                                     ELSE IF other = "wild" THEN Wild ELSE {})]
      IN  Scenario("identity", pages, [p \in DOMAIN pages |-> X], present,
                   (PageW :> [on |-> TRUE, page |-> PageA, version |-> v, language |-> l]),
                   def[1], def[2], <<"/">> \o PageW, 0)
      : S \in SmallSets, other \in {"same", "wild", "none"},
        ty \in {"simple", "library", "template", "language"},
        v \in VersionNames, l \in LanguageNames,
        def \in {<<"", "en">>, <<"v1", "en">>} }

\* composition: page a under a chain of n father templates, every text
ChainPages(n) ==
    [p \in {PageA} \cup {Parent(k) : k \in 1..n} |->
        IF p = PageA
        THEN Desc("published", "simple", IF n >= 1 THEN Parent(1) ELSE <<>>, FALSE)
        ELSE Desc("template", "template",
                  IF Len(p) < n THEN Parent(Len(p) + 1) ELSE <<>>, FALSE)]

\* the chains of at most `longest` father templates
ChainScenarios(longest) ==
    UNION { { Scenario("chain", ChainPages(n),
                       [p \in DOMAIN ChainPages(n) |-> IF p = PageA THEN tx[0] ELSE tx[Len(p)]],
                       PresentAll(Wild, DOMAIN ChainPages(n)), NoCalls, "", "en",
                       <<"/">> \o PageA, n)
              : tx \in [0..n -> Texts] }
            : n \in 0..longest }

\* template references between three pages, cycles included
Refs == {<<>>, PageA, Parent(1), Parent(2), PageZ}

CycleScenarios ==
    { LET pages == (PageA :> Desc("published", "simple", ra, FALSE))
                   @@ (Parent(1) :> Desc("template", "template", r1, FALSE))
                   @@ (Parent(2) :> Desc("block", "template", r2, FALSE))
      IN  Scenario("cycle", pages, [p \in DOMAIN pages |-> X \o Token],
                   PresentAll(Wild, DOMAIN pages), NoCalls, "", "en",
                   <<"/">> \o PageA, 0)
      : ra \in Refs, r1 \in Refs, r2 \in Refs }

\* redirect descriptors, reached top-level and as a father template
RedirectScenarios ==
    { LET target == (PageA :> RedirectDesc("published", url, code))
          pages == IF inner
                   THEN (PageW :> Desc("published", "simple", PageA, FALSE)) @@ target
                   ELSE target
      IN  Scenario("redirect", pages, [p \in DOMAIN pages |-> X],
                   PresentAll(Wild, DOMAIN pages), NoCalls, "", "en",
                   IF inner THEN <<"/">> \o PageW ELSE <<"/">> \o PageA, 0)
      : url \in {<<>>, <<"/", "b">>}, code \in RedirectCodes, inner \in BOOLEAN }

\* request paths with and without an ending slash, on published pages
SlashURLs == {<<"/">>, <<"/", "a">>, <<"/", "a", "/">>, <<"/", "a", "/", "b", "/">>,
              <<"/", "a", "/", "/">>, <<"/", "/">>, <<"/", "b", "/">>}

SlashScenarios ==
    { LET pages == (PageA :> Desc("published", "simple", <<>>, acc))
                   @@ (SpinePath(2) :> Desc("published", "simple", <<>>, acc))
      IN  Scenario("slash", pages, [p \in DOMAIN pages |-> X],
                   PresentAll(Wild, DOMAIN pages), NoCalls, "", "en", url, 0)
      : url \in SlashURLs, acc \in BOOLEAN }

Scenarios(longest) ==
    LocatorScenarios \cup IdentityScenarios \cup ChainScenarios(longest)
    \cup CycleScenarios \cup RedirectScenarios \cup SlashScenarios

NoTrace == [replaces |-> 0, substitutions |-> 0, final |-> <<>>, failed |-> FALSE,
            redirect |-> NoRedirect]

EInit ==
    /\ LIdle
    /\ XIdle
    /\ config \in Scenarios(MaxChain)
    /\ stack = <<>>
    /\ response = NoResponse
    /\ MainContext = NoContext
    /\ started = FALSE
    /\ trace = NoTrace

ENext == Start \/ Locate \/ Resolve \/ Content \/ Template \/ Return \/ Write

SpecEngine == EInit /\ [][ENext]_vars

-----------------------------------------------------------------------------
(* Claims about Engine.Run *)

Frames == {stack[i] : i \in 1..Len(stack)}

Located(f) == f.pc # "locate"

\* C1: whenever the page-locator loop ends with a descriptor, the descriptor
\* is not hidden, and it is template or block only in an inner call: a
\* top-level call proceeds only with a published descriptor.
C1_LocatedIsAvailable ==
    \A f \in Frames :
        (Located(f) /\ f.pagedata.exists) =>
            /\ f.pagedata.status # "hidden"
            /\ f.pagedata.status \in {"template", "block"} => f.innerpage
            /\ ~f.innerpage => f.pagedata.status = "published"

C1_Witness ==
    /\ \E f \in Frames : f.innerpage /\ f.pc = "content" /\ f.pagedata.status = "block"
    /\ \E f \in Frames : ~f.innerpage /\ f.pc = "intemplate"
                         /\ f.pagedata.status = "published"

\* the prefixes of a path that end on a segment boundary
Prefixes(page) ==
    {SubSeq(page, 1, n) : n \in {m \in 0..Len(page) :
                                    \/ m = Len(page)
                                    \/ page[m + 1] = "/"}}

Segments(page) == Cardinality({i \in 1..Len(page) : page[i] = "/"}) + 1

Qualifies(innerpage, q) ==
    /\ q \in DOMAIN config.pages
    /\ \/ config.pages[q].status = "published"
       \/ innerpage /\ config.pages[q].status \in {"template", "block"}

\* C2: the ancestor loop queries the descriptor store at most d+1 times for
\* a path of d segments; the prefix it stops on is the longest prefix of the
\* request path (on segment boundaries) with an available descriptor; it
\* ends without a descriptor only when no prefix qualifies.
C2_LongestPrefix ==
    \A f \in Frames :
        /\ f.queries <= Segments(f.page) + 1
        /\ Located(f) =>
            IF f.pagedata.exists
            THEN /\ f.P \in Prefixes(f.page)
                 /\ Qualifies(f.innerpage, f.P)
                 /\ f.pagedata = config.pages[f.P]
                 /\ \A q \in Prefixes(f.page) :
                        Len(q) > Len(f.P) => ~Qualifies(f.innerpage, q)
            ELSE \A q \in Prefixes(f.page) : ~Qualifies(f.innerpage, q)

C2_Witness ==
    \E f \in Frames :
        /\ Located(f) /\ f.pagedata.exists
        /\ f.queries = MaxSegs
        /\ Segments(f.page) = MaxSegs
        /\ Len(f.P) = 1

\* C6: a template chain that comes back to a canonical path fails fast with
\* a recursion error: no call gets past the recursion check on a path that
\* a call below it on the stack is already composing.
C6_RecursionFailsFast ==
    \A i \in 1..Len(stack), j \in 1..Len(stack) :
        (i < j /\ stack[j].pc = "content" /\ stack[i].pc \in {"incall", "intemplate"})
            => stack[i].P # stack[j].P

EffectiveCode(redirectcode) ==
    IF redirectcode \in {301, 302, 307, 308} THEN redirectcode ELSE 308

\* C7: a top-level request that resolves to a redirect descriptor is
\* redirected with the descriptor's redirectCode when that is one of 301,
\* 302, 307, 308 and with 308 otherwise, and generates no content.
C7_RedirectCode ==
    \A f \in Frames :
        (~f.innerpage /\ f.pc = "ret" /\ ~f.failed /\ f.pagedata.type = "redirect")
            => /\ response.code = EffectiveCode(f.pagedata.redirectcode)
               /\ f.result = <<>>

ClaimVersions(v, dv) == <<dv>> \o (IF v # "" /\ v # dv THEN <<v>> ELSE <<>>) \o <<"">>
ClaimLanguages(l, dl) == <<dl>> \o (IF l # "" /\ l # dl THEN <<l>> ELSE <<>>) \o <<"">>

HasIdentities(f) == f.identities # <<>>

Hits(kind, f) ==
    {i \in 1..Len(f.identities) :
        /\ f.P \in DOMAIN config.present[kind]
        /\ f.identities[i] \in config.present[kind][f.P]}

FirstOf(kind, f, found) ==
    IF Hits(kind, f) = {}
    THEN found = NoIdentity
    ELSE \E i \in Hits(kind, f) :
            /\ \A j \in Hits(kind, f) : i <= j
            /\ found = f.identities[i]

Rendered(f) ==
    \/ f.pc \in {"template", "incall", "intemplate"}
    \/ f.pc = "ret" /\ ~f.failed /\ HasIdentities(f)

C9_ExactIdentityFirst ==
    \A f \in Frames :
        (/\ HasIdentities(f)
         /\ f.version # "" /\ f.version # config.version
         /\ f.language # "" /\ f.language # config.language)
            => /\ f.identities[1] = <<f.version, f.language>>
               /\ f.identities[Len(f.identities)] = <<"", "">>

Composed == config.family = "chain" /\ response.written

\* C10 as stated: a chain of N father templates gives exactly N
\* substitutions of [[CONTENT]] and a final body without the token, for
\* every page body and template text.
C10_AnyTexts ==
    Composed => /\ trace.substitutions = config.chain
                /\ ~Contains(response.body, Token)

Brackets(s) == Cardinality({i \in 1..Len(s) : s[i] \in {"[", "]"}})

\* the father template texts hold the token exactly once and no other
\* bracket; the page body holds no bracket
WellFormedTexts ==
    \A p \in DOMAIN config.texts :
        IF p = PageA
        THEN Brackets(config.texts[p]) = 0
        ELSE Count(config.texts[p], Token) = 1 /\ Brackets(config.texts[p]) = 4

\* C10 amended: a chain of N father templates performs exactly N Replace
\* operations, one per level; when every father template text holds the
\* token exactly once and no text holds a bracket outside that token,
\* exactly N occurrences are substituted and the final body has no token.
C10_WellFormedTexts ==
    Composed => /\ trace.replaces = config.chain
                /\ WellFormedTexts => /\ trace.substitutions = config.chain
                                      /\ ~Contains(response.body, Token)
                                      /\ Contains(response.body, config.texts[PageA])

C10_Witness ==
    /\ Composed
    /\ config.chain = MaxChain
    /\ WellFormedTexts
    /\ config.texts[PageA] = X
    /\ Len(response.body) > Len(X)

\* the call got past the checks of the descriptor and of the instance
Resolved(f) ==
    \/ f.pc \in {"content", "template", "incall", "intemplate"}
    \/ f.pc = "ret" /\ ~f.failed /\ HasIdentities(f)

\* the call ended on the parameter-rejected error
ParametersRejected(f) ==
    /\ f.pc = "ret" /\ f.failed
    /\ f.identities = <<>> /\ f.xdata = <<>> /\ f.ctx = NoContext
    /\ f.result = (IF f.innerpage THEN ErrParameters ELSE <<>>)
    /\ ~f.innerpage => response.code = StatusNotFound /\ response.error = ErrParameters

\* C11: when the matched prefix P is shorter than the page, the remaining
\* segments, in order, are the URL parameters of the call if and only if
\* the matched descriptor accepts path parameters; otherwise the call ends
\* on the parameter-rejected error (404 at top level) and renders nothing.
\* When P is the page there are no parameters, whatever the flag says.
C11_PathParameters ==
    \A f \in Frames :
        /\ (Resolved(f) /\ f.P # f.page) =>
                /\ f.pagedata.AcceptPathParameters
                /\ f.xParams # <<>>
                /\ Split(f.P) \o f.xParams = Split(f.page)
        /\ (Resolved(f) /\ f.P = f.page) => f.xParams = <<>>
        /\ (/\ f.pc \notin {"locate", "resolve"} /\ f.pagedata.exists
            /\ f.P # f.page /\ ~f.pagedata.AcceptPathParameters)
                => ParametersRejected(f)
        /\ (f.pc = "ret" /\ f.failed /\ f.result = ErrParameters) => f.P # f.page

C11_Witness ==
    /\ \E f \in Frames :
            /\ Resolved(f) /\ ~f.innerpage
            /\ f.page = SpinePath(3) /\ f.P = SpinePath(1)
            /\ f.xParams = <<<<"b">>, <<"a">>>>
    /\ config.family = "locator"

HasContext(f) == f.ctx # NoContext

\* C16: in one top-level request every inner call, at any depth, has the
\* Main context fields that the top-level call set, and Local fields of
\* the page, descriptor, instance and parameters of its own level; the
\* engine's main context stays the one of the top-level call.
C16_MainContextInherited ==
    \A i \in 1..Len(stack) :
        HasContext(stack[i]) =>
            LET f == stack[i]
                top == stack[1]
            IN  /\ f.ctx.LocalPage = f.page
                /\ f.ctx.LocalPageUsed = f.P
                /\ f.ctx.LocalURLparams = f.xParams
                /\ f.ctx.LocalPageparams = f.pagedata
                /\ f.ctx.LocalInstanceparams = f.instancedata
                /\ HasContext(top) /\ ~top.innerpage
                /\ f.ctx.MainPage = top.page
                /\ f.ctx.MainPageUsed = top.P
                /\ f.ctx.MainURLparams = top.xParams
                /\ f.ctx.MainPageparams = top.pagedata
                /\ f.ctx.MainInstanceparams = top.instancedata
                /\ MainContext = top.ctx
                /\ i > 1 => f.innerpage

C16_Witness ==
    /\ Len(stack) >= 3
    /\ HasContext(stack[3])
    /\ stack[3].ctx.LocalPage # stack[3].ctx.MainPage
    /\ stack[3].ctx.LocalPageparams # stack[3].ctx.MainPageparams
    /\ stack[2].ctx.LocalPage # stack[3].ctx.LocalPage

RedirectResolved(f) ==
    /\ f.pagedata.exists /\ f.pagedata.type = "redirect"
    /\ f.pc \notin {"locate", "resolve"}
    /\ ~(f.pc = "ret" /\ f.failed /\ f.identities = <<>> /\ f.ctx = NoContext
         /\ f.P # f.page)

\* C17: an inner call that resolves to a redirect descriptor writes no
\* redirect (Engine.Run writes nothing to the response and goes on, the
\* redirect engine refuses); a top-level call that resolves to a redirect
\* descriptor redirects to the descriptor's URL and returns no content.
C17_NoInnerRedirect ==
    /\ \A i \in 2..Len(stack) : stack[i].innerpage /\ response = NoResponse
    /\ \A f \in Frames :
        /\ (f.innerpage /\ RedirectResolved(f))
                => /\ response = NoResponse
                   /\ ~trace.redirect.redirected
                   /\ trace.redirect.location = <<>>
                   /\ trace.redirect.ctxCode = StatusInternalServerError
        /\ (~f.innerpage /\ RedirectResolved(f))
                => /\ f.pc = "ret" /\ f.result = <<>> /\ ~f.failed
                   /\ response.code \in 300..399
                   /\ response.location = f.pagedata.Redirect
                   /\ f.pagedata.Redirect # <<>>
                        => /\ trace.redirect.redirected
                           /\ trace.redirect.location = f.pagedata.Redirect
                           /\ trace.redirect.code \in 300..399

C17_Witness ==
    \E f \in Frames :
        /\ f.innerpage /\ RedirectResolved(f)
        /\ f.pagedata.Redirect # <<>>
        /\ f.pagedata.redirectcode = StatusFound
        /\ f.pc = "ret"

\* the call ended because no prefix of its page has an available descriptor
NotFound(f) == f.pc = "ret" /\ ~f.pagedata.exists

\* C18: when no prefix of the page has an available descriptor, a
\* top-level call answers HTTP 404 and returns the empty text (nothing is
\* added to the body), and an inner call writes nothing to the response and
\* returns the error text, which the calling level renders in place.
C18_NotFound ==
    /\ \A f \in Frames :
        /\ (f.pc \notin {"locate", "resolve"}
              /\ \A q \in Prefixes(f.page) : ~Qualifies(f.innerpage, q))
                => NotFound(f)
        /\ NotFound(f) =>
            /\ f.failed /\ f.xdata = <<>> /\ ~HasContext(f)
            /\ IF f.innerpage
               THEN /\ f.result = ErrNoPage(f.page)
                    /\ response = NoResponse
               ELSE /\ f.result = <<>>
                    /\ response.code = StatusNotFound
                    /\ response.error = ErrNoPage(f.page)
                    /\ response.location = <<>>
    /\ (response.written /\ response.code = StatusNotFound) => response.body = <<>>
    /\ (/\ response.written /\ config.family = "cycle"
        /\ config.pages[PageA].template = PageZ)
            => /\ response.body = ErrNoPage(PageZ)
               /\ response.code = 0 /\ response.error = <<>>

C18_Witness ==
    \E i \in 2..Len(stack) :
        /\ NotFound(stack[i]) /\ stack[i].innerpage
        /\ Segments(stack[i].page) = MaxSegs
        /\ stack[i].queries = MaxSegs
        /\ stack[i - 1].pc = "intemplate"

\* the request path ends with a slash (after the leading slash)
EndsWithSlash(url) ==
    LET page == IF url[1] = "/" THEN Tail(url) ELSE url
    IN  Len(page) > 0 /\ page[Len(page)] = "/"

\* C20: a top-level request whose path ends with a slash is answered with
\* a 301 redirect whose Location is the request path without that slash,
\* and Engine.Run is never entered for it: no descriptor or instance is
\* looked up and nothing is written to the body.
C20_TrailingSlashRedirect ==
    (started /\ EndsWithSlash(config.url))
        => /\ response.code = StatusMovedPermanently
           /\ response.header = SubSeq(config.url, 1, Len(config.url) - 1)
           /\ stack = <<>> /\ ~response.written /\ response.body = <<>>
           /\ MainContext = NoContext /\ trace = NoTrace

-----------------------------------------------------------------------------
(* Claims about LibraryEngineInstance.Run *)

AllIdle == \A p \in Procs : Idle(p)

\* every invocation since the last source change began after it, and no two
\* of them ran at the same time
Sequential == epoch.quiet /\ ~epoch.overlap

\* C3: a Ready module whose source is then modified is compiled exactly
\* once by the next invocation and ends Ready or Error; later invocations
\* with no further source change do not invoke the compiler again.
C3_RecompilesOnce ==
    (epoch.fromReady /\ Sequential /\ AllIdle /\ epoch.done >= 1)
        => /\ epoch.compiles = 1
           /\ CachedPlugin.Status \in {1, 2}

\* C4: two requests that run concurrently on the same stale module invoke
\* the compiler once and both end with the shared cache entry Ready.
C4_SingleCompile ==
    (/\ epoch.quiet /\ AllIdle /\ epoch.done >= 2
     /\ fs.exists /\ KindOf(fs.rev) = "good")
        => /\ epoch.compiles <= 1
           /\ CachedPlugin.Status = 1

\* C5: after the source file is deleted, whatever the status was before,
\* the module is in Error and its messages hold exactly one "source
\* missing" diagnostic, appended by the first invocation after the deletion;
\* the invocations return the accumulated messages.
C5_OneMissingMessage ==
    (epoch.deleted /\ Sequential /\ AllIdle /\ epoch.done >= 1)
        => /\ CachedPlugin.Status = 2
           /\ CountOf(CachedPlugin.Messages, MissingMessage) = epoch.missingBefore + 1
           /\ epoch.returned = MessagesOf(CachedPlugin)

\* C12: a cached module whose status is Ready holds a loaded handle and the
\* default entry point Run, of the standard signature, resolved from that
\* same handle, in every state of every interleaving of invocations.
C12_ReadyHasRun ==
    (LibraryCache # "" /\ CachedPlugin.Status = 1)
        => /\ CachedPlugin.Lib # NoHandle
           /\ CachedPlugin.Run = CachedPlugin.Lib
           /\ HasRun(CachedPlugin.Run)
           /\ StandardRun(CachedPlugin.Run)

\* C13: once the module is in Error, and until the source file is modified
\* or removed, every later invocation leaves it in Error with the same
\* messages, returns those messages, and calls neither the compiler nor the
\* loader.
C13_ErrorIsTerminal ==
    (epoch.latch.on /\ AllIdle)
        => /\ CachedPlugin.Status = 2
           /\ CachedPlugin.Messages = epoch.latch.messages
           /\ epoch.returned = MessagesOf(CachedPlugin)
           /\ epoch.compiles = epoch.latch.compiles
           /\ epoch.opens = epoch.latch.opens

\* C14: when recompilation fails on a module that has a loaded artifact,
\* the module is in Error with the compile diagnostic appended and the
\* request is still served by the previously loaded artifact; messages are
\* returned as the content only where no artifact with a Run entry point
\* was ever loaded.
C14_ServedByPreviousArtifact ==
    /\ (/\ epoch.fromReady /\ Sequential /\ AllIdle /\ epoch.done >= 1
        /\ fs.exists /\ KindOf(fs.rev) = "nocompile")
            => /\ CachedPlugin.Status = 2
               /\ CountOf(CachedPlugin.Messages, CompileMessage) >= 1
               /\ CachedPlugin.Lib # NoHandle
               /\ epoch.returned.kind = "content"
               /\ epoch.returned.handle = CachedPlugin.Lib
    /\ (/\ Sequential /\ AllIdle /\ epoch.done >= 1 /\ fs.exists
        /\ CachedPlugin.Messages # <<>>
        /\ CachedPlugin.Messages[Len(CachedPlugin.Messages)] = CompileMessage
        /\ epoch.returned.kind = "messages")
            => CachedPlugin.Run = NoHandle

\* C15: the plugin file of a build id is loaded at most once in the life of
\* the process, whatever the interleaving of the requests, and the handle
\* registry of the cached module never loses an entry.
C15_LoadedOnce ==
    /\ [](\A b \in DOMAIN epoch.opens : epoch.opens[b] <= 1)
    /\ [][DOMAIN CachedPlugin.Libs \subseteq DOMAIN CachedPlugin'.Libs]_vars

\* the answer the code owes for a function name on a handle
Owed(handle, fctname) ==
    IF fctname = RunName
    THEN IF KindOf(handle.rev) = "norun" THEN "nofunction"
         ELSE IF KindOf(handle.rev) = "badsig" THEN "badfunction"
         ELSE "content"
    ELSE IF fctname = OddName THEN "badfunction"
    ELSE "nofunction"

\* the request task p returns from the dispatch on a Ready module
Dispatched(p) ==
    /\ procs[p].pc = "dispatch" /\ procs'[p].pc = "idle"
    /\ Lib(p).Status = 1 /\ Lib(p).Lib # NoHandle

\* C19: on a Ready module, a request for a function that the plugin does
\* not have, or has with another signature, is answered with the inline
\* error, and the dispatch changes neither the status, the messages nor
\* the handle registry of the module; requests one after the other that
\* follow such an answer find the module Ready and the default entry point
\* is served.
C19_LookupFailureIsInline ==
    /\ [][\A p \in Procs :
            Dispatched(p) =>
                /\ heap' = heap /\ LibraryCache' = LibraryCache /\ fs' = fs
                /\ epoch'.returned.handle = Lib(p).Lib
                /\ epoch'.returned.kind = Owed(Lib(p).Lib, epoch'.returned.fct)]_vars
    /\ []((epoch.missed /\ Sequential /\ AllIdle /\ fs.exists)
            => /\ CachedPlugin.Status = 1
               /\ epoch.returned.kind = Owed(CachedPlugin.Lib, epoch.returned.fct))

C19_Witness ==
    /\ epoch.missed /\ Sequential /\ AllIdle /\ fs.exists
    /\ epoch.done >= 2
    /\ epoch.returned.kind = "content"
    /\ epoch.returned.fct = RunName
    /\ epoch.returned.handle = CachedPlugin.Run

-----------------------------------------------------------------------------
(* Claims about the shape of the answer *)

Json == <<"j", "s", "o", "n">>

\* the text of the result, with the entries of the language injected
Strcode ==
    IF answer.language.nil THEN answer.x1.text
    ELSE Inject(answer.x1.text, answer.language.entries, answer.order)

StartsWith(t, chars) == t # <<>> /\ t[1] \in chars

\* C21: with the output format json, a textual result that starts with "<"
\* is converted by the markup adapter, or answered with an inline error
\* when the conversion fails; one that starts with "{" or "[" is returned
\* verbatim; every other textual result, the empty text included, is
\* wrapped as {"message": text}; a result that is not textual is JSON
\* encoded, or answered with an inline error when the encoding fails.
C21_JsonShaping ==
    (answer.on /\ answer.done /\ answer.out = Json)
        => LET r == answer.returned
           IN  IF ~answer.x1.textual
               THEN IF Marshals(answer.x1)
                    THEN r.kind = "encoded" /\ r.content = Encoded(answer.x1)
                    ELSE r.kind = "error"
               ELSE IF StartsWith(Strcode, {"<"})
               THEN IF Unmarshals(Strcode)
                    THEN r.kind = "structured" /\ r.content = Structured(Strcode)
                    ELSE r.kind = "error"
               ELSE IF StartsWith(Strcode, {"{", "["})
               THEN r.kind = "verbatim" /\ r.content = Strcode
               ELSE r.kind = "message" /\ r.content = Message(Strcode)

-----------------------------------------------------------------------------
(* Claims about the request statistics *)

StatIdle == \A t \in Tasks : tasks[t].pc = "idle"

\* C22: under any interleaving of CreateRequestStat and UpdateStat calls
\* with the cleaner, no update of the totals is lost: once the calls have
\* returned, RequestsTotal is the number of CreateRequestStat calls and
\* LengthServed is the sum of the lengths passed to both functions.
C22_TotalsNotLost ==
    StatIdle => /\ SystemStat.RequestsTotal = tally.created
                /\ SystemStat.LengthServed = tally.lengths

\* C23: right after a pass of Clean, Requests holds no entry whose Time is
\* more than two minutes before the time of the pass, and every entry whose
\* Time is within the last two minutes is still there.
C23_WindowKeepsTwoMinutes ==
    cleaner.pc = "unlock" => cleaner.stale = {} /\ cleaner.lost = {}

\* C24: once the calls have returned and the cleaner sleeps, Requests is in
\* the order of non-decreasing Time and holds each RequestStat at most once.
C24_OrderedByTime ==
    (StatIdle /\ cleaner.pc = "sleep")
        => LET list == SystemStat.Requests
           IN  /\ \A i, j \in 1..Len(list) :
                    i < j => stats[list[i]].Time <= stats[list[j]].Time
               /\ \A i, j \in 1..Len(list) : i # j => list[i] # list[j]

\* C25: the RequestStats that CreateRequestStat returned have Ids that
\* differ from each other, under any interleaving of the calls, and once the
\* calls have returned RequestCounter is the number of requests created.
C25_UniqueIds ==
    /\ \A r1, r2 \in tally.returned : r1 # r2 => stats[r1].Id # stats[r2].Id
    /\ StatIdle => RequestCounter = tally.created

====
